---- MODULE Spec2Model ----
(***************************************************************************)
(* The lesson-completion ledger of the learning-platform backend:          *)
(* modules.py complete_lesson / _complete_lesson_internal running as       *)
(* concurrent requests against one MySQL (InnoDB, REPEATABLE READ)         *)
(* database.  Committed tables are the shared state; every request owns a  *)
(* session whose flushed but uncommitted writes stay private until commit. *)
(***************************************************************************)
EXTENDS Integers, Sequences, FiniteSets, TLC

\* Number of request slots (requests that may be issued in one run).
MaxReq == 3

\* modules.py:745  credited_xp = 50
DefaultXP == 50

\* modules.py:816  max_retries = 3
max_retries == 3

\* Request slots of the run with one more request (WideSpec).
MaxReqWide == 4

\* The request slots of Spec, and all request slots.
Slots == 1..MaxReq
Procs == 1..MaxReqWide

\* ------------------------------------------------------------------------
\* Nullable values: Python None / an absent JSON key is <<>>, a value v is <<v>>.
None == <<>>
Some(v) == <<v>>
Val(x) == x[1]

\* ------------------------------------------------------------------------
\* Catalogue rows (content.py models).  The admin endpoints store any
\* integer (or null) in Lesson.xp_reward and Module.total_lessons.
UserIds == {1}
ModuleIds == {1, 2, 3}
LessonIds == {1, 2, 3, 4, 5, 6, 7}
\* A lesson id no Lesson row has.
MissingLessonId == CHOOSE n \in 1..(Cardinality(LessonIds) + 1) : n \notin LessonIds

\* The module ids and lesson ids in the paths of the requests of Spec.
PathModuleIds == {1, 2}
RequestLessonIds == {1, 2, 3, 4} \cup {MissingLessonId}

\* Lesson rows: module_id, lesson_number and xp_reward (content.py Lesson).
Lesson(l) ==
    CASE l = 1 -> [module_id |-> 1, lesson_number |-> 1, xp_reward |-> Some(20)]
      [] l = 2 -> [module_id |-> 1, lesson_number |-> 2, xp_reward |-> None]
      [] l = 3 -> [module_id |-> 1, lesson_number |-> 3, xp_reward |-> Some(0)]
      [] l = 4 -> [module_id |-> 2, lesson_number |-> 1, xp_reward |-> Some(0 - 1)]
      [] l = 5 -> [module_id |-> 3, lesson_number |-> 1, xp_reward |-> Some(20)]
      [] l = 6 -> [module_id |-> 3, lesson_number |-> 2, xp_reward |-> Some(20)]
      [] l = 7 -> [module_id |-> 3, lesson_number |-> 3, xp_reward |-> Some(20)]

LessonsOf(m) == {l \in LessonIds : Lesson(l).module_id = m}

\* Module rows: topic_id, module_number and total_lessons (content.py
\* Module; module_number is unique within a topic only).  The first module
\* counts its three lessons; the second keeps the column default 0 though it
\* has a lesson (creating a lesson does not touch Module.total_lessons); the
\* third got a third lesson after its total_lessons was set to 2.
Module(m) ==
    CASE m = 1 -> [topic_id |-> 1, module_number |-> 1, total_lessons |-> 3]
      [] m = 2 -> [topic_id |-> 2, module_number |-> 1, total_lessons |-> 0]
      [] m = 3 -> [topic_id |-> 1, module_number |-> 2, total_lessons |-> 2]

\* Request bodies: {score?, time_spent?, xp_earned?}.
NoData == [xp_earned |-> None, score |-> None, time_spent |-> None]
DataChoices ==
    { NoData,
      [xp_earned |-> Some(30),    score |-> Some(80), time_spent |-> Some(60)],
      [xp_earned |-> Some(0 - 5), score |-> Some(40), time_spent |-> None] }

VARIABLES
    lesson_progress,   \* committed user_lesson_progress rows
    module_progress,   \* committed user_module_progress rows
    xp_transactions,   \* committed xp_transactions rows
    total_xp,          \* committed users.total_xp, per user id
    pc,                \* per request: where the handler is
    req,               \* per request: user_id, module_id, lesson_id, data
    loc,               \* per request: the handler's locals and session
    resp,              \* per request: the HTTP response
    hist               \* per request: history of what it did (for the properties)

vars == <<lesson_progress, module_progress, xp_transactions, total_xp,
          pc, req, loc, resp, hist>>

db == <<lesson_progress, module_progress, xp_transactions, total_xp>>

\* ------------------------------------------------------------------------
\* Rows and queries.

\* UserLessonProgress(user_id=, lesson_id=) with the column defaults.
NewLessonProgress(u, l) ==
    [user_id |-> u, lesson_id |-> l, is_completed |-> FALSE, score |-> None,
     time_spent |-> 0, xp_earned |-> 0, completed_at |-> None]

\* UserModuleProgress(user_id=, module_id=, total_lessons=, completed_lessons=0).
NewModuleProgress(u, m, total) ==
    [user_id |-> u, module_id |-> m, completed_lessons |-> 0,
     total_lessons |-> total, is_completed |-> FALSE, completed_at |-> None]

LessonRows(table, u, l) == {r \in table : r.user_id = u /\ r.lesson_id = l}
ModuleRows(table, u, m) == {r \in table : r.user_id = u /\ r.module_id = m}

\* UserLessonProgress.query.filter_by(user_id=, lesson_id=).first()
QueryLessonProgress(table, u, l) ==
    IF LessonRows(table, u, l) = {} THEN None
    ELSE Some(CHOOSE r \in LessonRows(table, u, l) : TRUE)

\* UserModuleProgress.query.filter_by(user_id=, module_id=).first()
QueryModuleProgress(table, u, m) ==
    IF ModuleRows(table, u, m) = {} THEN None
    ELSE Some(CHOOSE r \in ModuleRows(table, u, m) : TRUE)

\* UserLessonProgress ... filter_by(user_id=, is_completed=True)
\*   .join(Lesson).filter(Lesson.module_id == module_id).count()
CompletedLessonCount(table, u, m) ==
    Cardinality({r \in table : /\ r.user_id = u
                               /\ r.is_completed
                               /\ r.lesson_id \in LessonsOf(m)})

\* The lookup without the comparison of the lesson's module with the path's.
LessonFound_NoModuleCheck(l, m) == l \in LessonIds

\* Lines 605-606: Lesson.query.get(lesson_id) found and
\* lesson.module_id == module_id.
LessonFound(l, m) == l \in LessonIds /\ Lesson(l).module_id = m

\* The handler without its already-completed early return.
AlreadyCompleted_Never(row) == FALSE

\* Lines 645 and 660: already_completed = bool(user_progress.is_completed).
AlreadyCompleted(row) == row.is_completed

\* A handler that goes on to the module aggregate when already_completed.
EarlyReturn_FallThrough(already_completed) == FALSE

\* Lines 646-649 and 663-665: if already_completed: return
\* (user_progress, None, 0, True).
EarlyReturn(already_completed) == already_completed

\* ------------------------------------------------------------------------
\* Responses (APIResponse.success / APIResponse.error of complete_lesson).
NoResp == [status |-> 0, already_completed |-> FALSE, xp_earned |-> 0]
Success(already, xp) == [status |-> 200, already_completed |-> already, xp_earned |-> xp]
Error(code) == [status |-> code, already_completed |-> FALSE, xp_earned |-> 0]

\* The wrapper maps the returned tuple to the body: xp_earned is 0 on the
\* already-completed branch, the returned amount otherwise.
ResponseOf(xp_earned, already_completed) ==
    IF already_completed THEN Success(TRUE, 0) ELSE Success(FALSE, xp_earned)

\* ------------------------------------------------------------------------
\* The handler's locals and its session (uncommitted unit of work).
NoReq == [user_id |-> 0, module_id |-> 0, lesson_id |-> 0, data |-> NoData]

NoLoc == [already_completed |-> FALSE,
          inserted |-> FALSE,        \* the flush INSERTed the lesson row (key lock held)
          user_progress |-> None,    \* the UserLessonProgress object
          module_progress |-> None,  \* the UserModuleProgress object
          mp_loaded |-> None,        \* its column values as loaded (None: a new object)
          lp_loaded |-> None,        \* its row as loaded (None: a new object)
          snap_mp |-> None,          \* the transaction's read view of the module row
          snap_count |-> 0,          \* the read view's completed-lesson count
          credited_xp |-> 0,
          user_locked |-> FALSE,     \* UPDATE users ran (row lock held)
          attempt |-> 0]             \* hook retry loop counter

NoHist == [endpoint |-> "",           \* "by_number", "lessons"; "" for modules.py's complete
           module_number |-> 0,      \* the numbers in a complete-by-number path
           lesson_number |-> 0,
           user_id |-> 0,            \* the request's user, module and lesson
           module_id |-> 0,          \*   (kept once the lesson was found)
           lesson_id |-> 0,
           hook_failures |-> 0,      \* failed attempts of the post-commit hooks
           active_at_start |-> {},   \* requests in flight when this one began
           start_done |-> FALSE,     \* the pair was committed completed when it began
           start_k |-> 0,            \* the module's completed lessons (rows) then
           start_c |-> 0,            \* the module row's completed_lessons then (0: no row)
           committed |-> FALSE]      \* its db.session.commit() succeeded

Init ==
    /\ lesson_progress = {}
    /\ module_progress = {}
    /\ xp_transactions = {}
    /\ total_xp = [u \in UserIds |-> 0]
    /\ pc = [p \in Procs |-> "idle"]
    /\ req = [p \in Procs |-> NoReq]
    /\ loc = [p \in Procs |-> NoLoc]
    /\ resp = [p \in Procs |-> NoResp]
    /\ hist = [p \in Procs |-> NoHist]

Active(q) == pc[q] \notin {"idle", "done"}

\* datetime.utcnow() as logical time: it advances with every request received.
Now == Cardinality({q \in Procs : pc[q] # "idle"})

\* The request ends with response r: the request context and the session
\* (with its locks) are torn down.
Finish(p, r, h) ==
    /\ pc' = [pc EXCEPT ![p] = "done"]
    /\ resp' = [resp EXCEPT ![p] = r]
    /\ req' = [req EXCEPT ![p] = NoReq]
    /\ loc' = [loc EXCEPT ![p] = NoLoc]
    /\ hist' = [hist EXCEPT ![p] = h]

\* A request that ends without a commit leaves no before/after to compare.
Uncommitted(h) == [h EXCEPT !.start_k = 0, !.start_c = 0]

\* ------------------------------------------------------------------------
\* Pieces of _complete_lesson_internal.

\* Lines 668-678: the completion fields and the submitted score, time_spent
\* and xp_earned, written onto the progress object at time t.
CompleteFields(row, data, t) ==
    [row EXCEPT !.is_completed = TRUE,
                !.completed_at = Some(t),
                !.score = IF data.score # None THEN data.score ELSE @,
                !.time_spent = IF data.time_spent # None THEN Val(data.time_spent) ELSE @,
                !.xp_earned = IF data.xp_earned # None THEN Val(data.xp_earned) ELSE @]

\* Lines 709-731: the module aggregate.  A new completion adds one to the
\* count the object carries; the already-completed branch takes the re-scan.
ModuleAggregate(mp, already_completed, total, rescan, t) ==
    LET count == IF ~already_completed THEN mp.completed_lessons + 1 ELSE rescan
    IN  [mp EXCEPT !.completed_lessons = count,
                   !.total_lessons = total,
                   !.is_completed = IF count >= total THEN TRUE ELSE @,
                   !.completed_at = IF count >= total /\ @ = None THEN Some(t) ELSE @]

\* Lines 736-745: the credited amount of a new completion.
ResolveXP(xp_earned, xp_reward) ==
    IF xp_earned # None /\ Val(xp_earned) > 0 THEN Val(xp_earned)
    ELSE IF xp_reward # None THEN Val(xp_reward)
    ELSE DefaultXP

\* Lines 748-754: the XPTransaction row; id is its primary key, one per
\* inserting request.
NewXPTransaction(id, u, m, l, amount) ==
    [id |-> id, user_id |-> u, source |-> "lesson_completion", amount |-> amount,
     module_id |-> m, lesson_id |-> l]

\* A ledger that keeps one row per user: the new row replaces the user's.
AppendXPTransaction_Replace(table, row) ==
    {t \in table : t.user_id # row.user_id} \cup {row}

\* Line 755: db.session.add(xp_tx): the commit INSERTs the row; no
\* statement of the handler updates or deletes a row of xp_transactions.
AppendXPTransaction(table, row) == table \cup {row}

\* An increment that stores the amount instead of adding it.
IncrementUserXP_Set(current, amount) == amount

\* Lines 760-764: UPDATE users SET total_xp = total_xp + :credited_xp, the
\* addition done by the database on the row's current value.
IncrementUserXP(current, amount) == current + amount

\* ------------------------------------------------------------------------
\* The database: unique keys, row locks, and what a commit writes.

\* The lesson table without its unique key.
LessonKeyTaken_Never(table, u, l) == FALSE

\* unique_user_lesson: an INSERT of (u, l) meets a committed row of that key.
LessonKeyTaken(table, u, l) == LessonRows(table, u, l) # {}

\* The module table without its unique key.
ModuleKeyTaken_Never(table, u, m) == FALSE

\* unique_user_module: an INSERT of (u, m) meets a committed row of that key.
ModuleKeyTaken(table, u, m) == ModuleRows(table, u, m) # {}

\* A key lock that outlives the transaction that committed the INSERT.
LessonKeyLocked_PastCommit(p, u, l) ==
    \E q \in Procs \ {p} :
        \/ loc[q].inserted /\ req[q].user_id = u /\ req[q].lesson_id = l
        \/ hist[q].committed /\ hist[q].user_id = u /\ hist[q].lesson_id = l

\* Another session holds the uncommitted INSERT of key (u, l): InnoDB makes
\* a second INSERT of the key wait for that session to commit or roll back.
LessonKeyLocked(p, u, l) ==
    \E q \in Procs \ {p} :
        /\ loc[q].inserted
        /\ req[q].user_id = u
        /\ req[q].lesson_id = l

\* Another session has run UPDATE users ... WHERE id = u and not yet ended.
UserRowLocked(p, u) ==
    \E q \in Procs \ {p} : loc[q].user_locked /\ req[q].user_id = u

\* The UPDATE the unit of work emits for a loaded row: only the columns whose
\* value differs from the loaded one are written over the committed row.
MergeUpdate(current, loaded, pending) ==
    [c \in DOMAIN current |-> IF pending[c] # loaded[c] THEN pending[c] ELSE current[c]]

\* The lesson table after the session's INSERT/UPDATE of its progress row.
WriteLessonProgress(table, u, l, row) ==
    (table \ LessonRows(table, u, l)) \cup {row}

\* The module table after the session's INSERT (loaded = None) or UPDATE.
WriteModuleProgress(table, u, m, loaded, row) ==
    IF loaded = None THEN table \cup {row}
    ELSE (table \ ModuleRows(table, u, m))
            \cup {MergeUpdate(cur, Val(loaded), row) : cur \in ModuleRows(table, u, m)}

\* A rollback that leaves the flushed rows behind.
RollbackLessonProgress_Keeps(table, flushed) == table \cup flushed

\* db.session.rollback() on the lesson table: the rows the session flushed
\* were never visible to others and are gone.
RollbackLessonProgress(table, flushed) == table

\* The rows the session of p has flushed and not committed.
FlushedRows(p) == IF loc[p].inserted THEN {Val(loc[p].user_progress)} ELSE {}

\* db.session.rollback(): the unit of work and its locks are gone.
RolledBack(l) ==
    [l EXCEPT !.inserted = FALSE, !.user_locked = FALSE,
              !.user_progress = None, !.lp_loaded = None,
              !.module_progress = None, !.mp_loaded = None]

\* A new transaction's read view (REPEATABLE READ: taken at its first read).
ReadView(l, u, m) ==
    [l EXCEPT !.snap_mp = QueryModuleProgress(module_progress, u, m),
              !.snap_count = CompletedLessonCount(lesson_progress, u, m)]

\* ------------------------------------------------------------------------
\* complete_lesson, step by step.

\* Lines 605-629 and 659-665: _complete_lesson_internal(u, m, l, d) is
\* entered by request p: the lesson is looked up and the existing progress
\* row is read.  h0 is what the history already holds of the request.
Receive(p, u, m, l, d, h0) ==
    LET r == [user_id |-> u, module_id |-> m, lesson_id |-> l, data |-> d]
        up == QueryLessonProgress(lesson_progress, u, l)
        h == [h0 EXCEPT
                !.user_id = u, !.module_id = m, !.lesson_id = l,
                !.active_at_start = {q \in Procs : Active(q)},
                !.start_done = (up # None /\ Val(up).is_completed),
                !.start_k = CompletedLessonCount(lesson_progress, u, m),
                !.start_c = IF ModuleRows(module_progress, u, m) = {} THEN 0
                            ELSE Val(QueryModuleProgress(module_progress, u, m)).completed_lessons]
    IN  /\ IF ~LessonFound(l, m)
           THEN \* raise NotFoundError -> rollback, 404
                Finish(p, Error(404),
                       [h0 EXCEPT !.active_at_start = h.active_at_start])
           ELSE IF up = None
           THEN \* a new object is added to the session
                /\ pc' = [pc EXCEPT ![p] = "flush"]
                /\ req' = [req EXCEPT ![p] = r]
                /\ hist' = [hist EXCEPT ![p] = h]
                /\ loc' = [loc EXCEPT ![p] =
                             [ReadView(NoLoc, u, m) EXCEPT
                                !.user_progress = Some(NewLessonProgress(u, l))]]
                /\ UNCHANGED resp
           ELSE IF EarlyReturn(AlreadyCompleted(Val(up)))
           THEN \* already completed: return (user_progress, None, 0, True)
                Finish(p, ResponseOf(0, TRUE), Uncommitted(h))
           ELSE \* the row exists and is not completed
                /\ pc' = [pc EXCEPT ![p] = "work"]
                /\ req' = [req EXCEPT ![p] = r]
                /\ hist' = [hist EXCEPT ![p] = h]
                /\ loc' = [loc EXCEPT ![p] =
                             [ReadView(NoLoc, u, m) EXCEPT
                                !.user_progress = up, !.lp_loaded = up,
                                !.already_completed = AlreadyCompleted(Val(up))]]
                /\ UNCHANGED resp
        /\ UNCHANGED db

\* Lines 836-846: POST /modules/<module_id>/lessons/<lesson_id>/complete is
\* received, with the path's ids from Ms and Ls and the body from Ds.  The
\* body is not looked at when the lesson is not found.
StartIn(p, Ms, Ls, Ds) ==
    /\ pc[p] = "idle"
    /\ \A q \in Procs : q < p => pc[q] # "idle"
    /\ \E u \in UserIds, m \in Ms, l \in Ls :
       \E d \in IF LessonFound(l, m) THEN Ds ELSE {NoData} :
          Receive(p, u, m, l, d, NoHist)

Start(p) ==
    /\ p \in Slots
    /\ StartIn(p, PathModuleIds, RequestLessonIds, DataChoices)

\* Lines 630-658: db.session.flush() INSERTs the new progress row.
Flush(p) ==
    LET u == req[p].user_id
        m == req[p].module_id
        l == req[p].lesson_id
        up == QueryLessonProgress(lesson_progress, u, l)
    IN  /\ pc[p] = "flush"
        /\ ~LessonKeyLocked(p, u, l)
        /\ IF ~LessonKeyTaken(lesson_progress, u, l)
           THEN /\ loc' = [loc EXCEPT ![p].inserted = TRUE]
                /\ pc' = [pc EXCEPT ![p] = "work"]
                /\ UNCHANGED <<req, resp, hist>>
           ELSE \* IntegrityError: rollback, expire_all, re-fetch
                IF up = None
                THEN Finish(p, Error(500), Uncommitted(hist[p]))
                ELSE IF EarlyReturn(AlreadyCompleted(Val(up)))
                THEN Finish(p, ResponseOf(0, TRUE), Uncommitted(hist[p]))
                ELSE /\ pc' = [pc EXCEPT ![p] = "work"]
                     /\ loc' = [loc EXCEPT ![p] =
                                  [ReadView(NoLoc, u, m) EXCEPT
                                     !.user_progress = up, !.lp_loaded = up,
                                     !.already_completed = AlreadyCompleted(Val(up))]]
                     /\ UNCHANGED <<req, resp, hist>>
        /\ UNCHANGED db

\* Lines 667-766: the progress object is completed, the module aggregate is
\* read and updated, the XP amount is resolved and UPDATE users is executed.
Work(p) ==
    LET u == req[p].user_id
        m == req[p].module_id
        l == req[p].lesson_id
        data == req[p].data
        already == loc[p].already_completed
        total == Module(m).total_lessons
        up == CompleteFields(Val(loc[p].user_progress), data, Now)
        mp0 == IF loc[p].snap_mp = None THEN NewModuleProgress(u, m, total)
               ELSE Val(loc[p].snap_mp)
        mp == ModuleAggregate(mp0, already, total, loc[p].snap_count, Now)
        credited == IF ~already THEN ResolveXP(data.xp_earned, Lesson(l).xp_reward) ELSE 0
    IN  /\ pc[p] = "work"
        /\ credited > 0 => ~UserRowLocked(p, u)
        /\ loc' = [loc EXCEPT ![p] =
                     [@ EXCEPT !.user_progress =
                                  Some(IF credited > 0 THEN [up EXCEPT !.xp_earned = credited]
                                       ELSE up),
                               !.module_progress = Some(mp),
                               !.mp_loaded = loc[p].snap_mp,
                               !.credited_xp = credited,
                               !.user_locked = (credited > 0)]]
        /\ pc' = [pc EXCEPT ![p] = "commit"]
        /\ UNCHANGED <<db, req, resp, hist>>

\* Lines 771-776: db.session.commit() flushes the unit of work and commits,
\* or raises IntegrityError on the module row's unique key and rolls back.
Commit(p) ==
    LET u == req[p].user_id
        m == req[p].module_id
        l == req[p].lesson_id
        credited == loc[p].credited_xp
    IN  /\ pc[p] = "commit"
        /\ IF loc[p].mp_loaded = None /\ ModuleKeyTaken(module_progress, u, m)
           THEN /\ pc' = [pc EXCEPT ![p] = "refetch"]
                /\ loc' = [loc EXCEPT ![p] = RolledBack(@)]
                /\ lesson_progress' = RollbackLessonProgress(lesson_progress, FlushedRows(p))
                /\ UNCHANGED <<module_progress, xp_transactions, total_xp, hist>>
           ELSE /\ lesson_progress' =
                     WriteLessonProgress(lesson_progress, u, l, Val(loc[p].user_progress))
                /\ module_progress' =
                     WriteModuleProgress(module_progress, u, m, loc[p].mp_loaded,
                                         Val(loc[p].module_progress))
                /\ xp_transactions' =
                     IF credited > 0
                     THEN AppendXPTransaction(xp_transactions,
                                              NewXPTransaction(p, u, m, l, credited))
                     ELSE xp_transactions
                /\ total_xp' =
                     IF credited > 0
                     THEN [total_xp EXCEPT ![u] = IncrementUserXP(@, credited)]
                     ELSE total_xp
                /\ pc' = [pc EXCEPT ![p] = "hooks"]
                /\ loc' = [loc EXCEPT ![p] =
                             [NoLoc EXCEPT !.credited_xp = credited,
                                           !.already_completed = loc[p].already_completed]]
                /\ hist' = [hist EXCEPT ![p].committed = TRUE]
        /\ UNCHANGED <<req, resp>>

\* Lines 777-812: after the rollback the error text is matched ("duplicate"
\* is in MySQL's message for every unique key) and the lesson row re-read.
Refetch(p) ==
    LET up == QueryLessonProgress(lesson_progress, req[p].user_id, req[p].lesson_id)
    IN  /\ pc[p] = "refetch"
        /\ IF up # None /\ AlreadyCompleted(Val(up))
           THEN Finish(p, ResponseOf(0, TRUE), Uncommitted(hist[p]))
           ELSE IF up # None
           THEN Finish(p, ResponseOf(0, FALSE), Uncommitted(hist[p]))
           ELSE Finish(p, Error(500), Uncommitted(hist[p]))
        /\ UNCHANGED db

\* Lines 816-834 and 848-867: the post-commit hooks (no-op stubs in this
\* build, modules.py 18-24) succeed at the first attempt; the tuple is
\* returned and the response built.
Hooks(p) ==
    /\ pc[p] = "hooks"
    /\ Finish(p, ResponseOf(loc[p].credited_xp, loc[p].already_completed), hist[p])
    /\ UNCHANGED db

Next ==
    \E p \in Slots :
        \/ Start(p)
        \/ Flush(p)
        \/ Work(p)
        \/ Commit(p)
        \/ Refetch(p)
        \/ Hooks(p)

Spec == Init /\ [][Next]_vars

\* ------------------------------------------------------------------------
\* The same requests when a database statement may fail (connection lost,
\* lock wait timeout, deadlock victim): the exception leaves
\* _complete_lesson_internal and complete_lesson's handler (lines 876-884)
\* rolls back and answers 500.

\* The lesson lookup of a request just received raises.
FaultLookup(p) ==
    /\ pc[p] = "idle"
    /\ p \in Slots
    /\ \A q \in Procs : q < p => pc[q] # "idle"
    /\ Finish(p, Error(500),
              [NoHist EXCEPT !.active_at_start = {q \in Procs : Active(q)}])
    /\ UNCHANGED db

\* The flush, the module lookup, UPDATE users, the commit or the re-fetch raises.
Fault(p) ==
    /\ pc[p] \in {"flush", "work", "commit", "refetch"}
    /\ Finish(p, Error(500), Uncommitted(hist[p]))
    /\ lesson_progress' = RollbackLessonProgress(lesson_progress, FlushedRows(p))
    /\ UNCHANGED <<module_progress, xp_transactions, total_xp>>

NextFault ==
    \/ Next
    \/ \E p \in Procs : FaultLookup(p) \/ Fault(p)

SpecFault == Init /\ [][NextFault]_vars

\* ------------------------------------------------------------------------
\* All completion endpoints together, with post-commit hooks that may raise
\* (update_leaderboard / check_achievements of the gamification module).

\* The requests of this run: the two crediting lessons of module 1, with or
\* without a submitted xp_earned.
StartPlain(p) ==
    /\ p \in Slots
    /\ StartIn(p, {1}, {1, 2}, {d \in DataChoices : d.xp_earned = None \/ Val(d.xp_earned) > 0})

\* A final hook failure that surfaces as a failed request.
AfterHooksExhausted_Raises(r) == Error(500)

\* Lines 829-834: the final attempt failed: logger.error, the loop ends and
\* the tuple is returned as after a success.
AfterHooksExhausted(r) == r

\* A retry loop that allows one attempt more than max_retries.
HookFail_ExtraAttempt(p) ==
    /\ pc[p] = "hooks"
    /\ IF loc[p].attempt < max_retries
       THEN /\ loc' = [loc EXCEPT ![p].attempt = @ + 1]
            /\ hist' = [hist EXCEPT ![p].hook_failures = @ + 1]
            /\ UNCHANGED <<pc, req, resp>>
       ELSE Finish(p,
                   AfterHooksExhausted(ResponseOf(loc[p].credited_xp,
                                                  loc[p].already_completed)),
                   [hist[p] EXCEPT !.hook_failures = @ + 1])
    /\ UNCHANGED db

\* Lines 819-832: an attempt of the hooks raises.  Before the last attempt
\* the loop sleeps and retries; after it the failure is logged only.
HookFail(p) ==
    /\ pc[p] = "hooks"
    /\ IF loc[p].attempt < max_retries - 1
       THEN /\ loc' = [loc EXCEPT ![p].attempt = @ + 1]
            /\ hist' = [hist EXCEPT ![p].hook_failures = @ + 1]
            /\ UNCHANGED <<pc, req, resp>>
       ELSE Finish(p,
                   AfterHooksExhausted(ResponseOf(loc[p].credited_xp,
                                                  loc[p].already_completed)),
                   [hist[p] EXCEPT !.hook_failures = @ + 1])
    /\ UNCHANGED db

\* lessons.py complete_lesson, POST /lessons/<lesson_id>/complete.  The
\* decorator require_auth has run User.query.get on db.session
\* (auth_decorators.py 24), so the session's transaction is begun when line
\* 35 calls db.session.begin(): it raises InvalidRequestError before any
\* statement of the handler; lines 168-175 roll back and answer 500.
LessonsComplete(p) ==
    /\ pc[p] = "idle"
    /\ p \in Slots
    /\ \A q \in Procs : q < p => pc[q] # "idle"
    /\ \E u \in UserIds, l \in {1, 2} :
          Finish(p, Error(500),
                 [NoHist EXCEPT
                    !.endpoint = "lessons",
                    !.user_id = u,
                    !.lesson_id = l,
                    !.module_id = Lesson(l).module_id,
                    !.active_at_start = {q \in Procs : Active(q)},
                    !.start_done =
                       (\E r \in LessonRows(lesson_progress, u, l) : r.is_completed)])
    /\ UNCHANGED db

NextAll ==
    \E p \in Slots :
        \/ StartPlain(p)
        \/ LessonsComplete(p)
        \/ Flush(p)
        \/ Work(p)
        \/ Commit(p)
        \/ Refetch(p)
        \/ Hooks(p)
        \/ HookFail(p)

SpecAll == Init /\ [][NextAll]_vars

\* A step of the handler of request p.  The server runs every request it
\* has received; a statement that waits for a lock runs once the lock is free.
Step(p) ==
    Flush(p) \/ Work(p) \/ Commit(p) \/ Refetch(p) \/ Hooks(p)

SpecLive == SpecAll /\ \A p \in Slots : WF_vars(Step(p))

\* ------------------------------------------------------------------------
\* complete_lesson_by_number: POST
\* /modules/<module_number>/lessons/<lesson_number>/complete-by-number.

\* The numbers in the paths of the by-number requests: module number 1 is
\* carried by a module of each topic, 2 by one module, 3 by none; lesson
\* number 1 is in every module, 2 in modules 1 and 3, 4 in none.
RequestModuleNumbers == {1, 2, 3}
RequestLessonNumbers == {1, 2, 4}

\* Line 895: Module.query.filter_by(module_number=...).first() returns one
\* of these (no ORDER BY; unique_topic_module lets every topic have one).
ModulesByNumber(n) == {m \in ModuleIds : Module(m).module_number = n}

\* A lesson lookup that does not filter by the module found.
LessonsByNumber_AnyModule(m, n) == {l \in LessonIds : Lesson(l).lesson_number = n}

\* Lines 900-903: Lesson.query.filter_by(module_id=module.id,
\* lesson_number=...).first() returns one of these.
LessonsByNumber(m, n) ==
    {l \in LessonIds : Lesson(l).module_id = m /\ Lesson(l).lesson_number = n}

\* Lines 888-911 and 934-940: the numbers are resolved, NotFoundError is
\* raised for an unknown number (rollback, 404), otherwise
\* _complete_lesson_internal(user_id, module.id, lesson.id, data) is entered.
StartByNumber(p) ==
    /\ pc[p] = "idle"
    /\ p \in Slots
    /\ \A q \in Procs : q < p => pc[q] # "idle"
    /\ \E u \in UserIds, mn \in RequestModuleNumbers, ln \in RequestLessonNumbers :
          LET h0 == [NoHist EXCEPT !.endpoint = "by_number",
                                   !.module_number = mn,
                                   !.lesson_number = ln,
                                   !.active_at_start = {q \in Procs : Active(q)}]
          IN  IF ModulesByNumber(mn) = {}
              THEN Finish(p, Error(404), h0) /\ UNCHANGED db
              ELSE \E m \in ModulesByNumber(mn) :
                      IF LessonsByNumber(m, ln) = {}
                      THEN Finish(p, Error(404), h0) /\ UNCHANGED db
                      ELSE \E l \in LessonsByNumber(m, ln), d \in DataChoices :
                              Receive(p, u, m, l, d, h0)

\* Requests of complete-by-number only; past the resolution they run the
\* steps of _complete_lesson_internal and the same response mapping
\* (lines 913-932 repeat 848-867).
NextByNumber ==
    \E p \in Slots :
        \/ StartByNumber(p)
        \/ Flush(p)
        \/ Work(p)
        \/ Commit(p)
        \/ Refetch(p)
        \/ Hooks(p)

SpecByNumber == Init /\ [][NextByNumber]_vars

\* ------------------------------------------------------------------------
\* Requests for a pair whose progress row exists and is not completed: the
\* branch of lines 659-665 that goes on to complete the existing row.

\* The committed rows this run begins with: every user has the row of
\* lesson 1 with the column defaults (is_completed = false).
InProgressRows == {NewLessonProgress(u, 1) : u \in UserIds}

InitInProgress ==
    /\ lesson_progress = InProgressRows
    /\ module_progress = {}
    /\ xp_transactions = {}
    /\ total_xp = [u \in UserIds |-> 0]
    /\ pc = [p \in Procs |-> "idle"]
    /\ req = [p \in Procs |-> NoReq]
    /\ loc = [p \in Procs |-> NoLoc]
    /\ resp = [p \in Procs |-> NoResp]
    /\ hist = [p \in Procs |-> NoHist]

\* The requests of this run: lessons 1 and 2 of module 1, with an empty body.
StartInProgress(p) ==
    /\ p \in Slots
    /\ StartIn(p, {1}, {1, 2}, {NoData})

NextInProgress ==
    \E p \in Slots :
        \/ StartInProgress(p)
        \/ Flush(p)
        \/ Work(p)
        \/ Commit(p)
        \/ Refetch(p)
        \/ Hooks(p)

SpecInProgress == InitInProgress /\ [][NextInProgress]_vars

\* ------------------------------------------------------------------------
\* Four requests on one module: enough for a completion, two overlapping
\* completions and a repeated call after them.

\* The requests of this run: the three lessons of module 3 (total_lessons
\* 2), with an empty body.
StartWide(p) ==
    /\ p \in Procs
    /\ StartIn(p, {3}, LessonsOf(3), {NoData})

NextWide ==
    \E p \in Procs :
        \/ StartWide(p)
        \/ Flush(p)
        \/ Work(p)
        \/ Commit(p)
        \/ Refetch(p)
        \/ Hooks(p)

SpecWide == Init /\ [][NextWide]_vars

\* ------------------------------------------------------------------------
\* Requests of two users on the lessons of one module.

\* The users of this run.
RequestUserIds == {1, 2}

InitUsers ==
    /\ lesson_progress = {}
    /\ module_progress = {}
    /\ xp_transactions = {}
    /\ total_xp = [u \in RequestUserIds |-> 0]
    /\ pc = [p \in Procs |-> "idle"]
    /\ req = [p \in Procs |-> NoReq]
    /\ loc = [p \in Procs |-> NoLoc]
    /\ resp = [p \in Procs |-> NoResp]
    /\ hist = [p \in Procs |-> NoHist]

\* Lines 836-846: the request of either user (get_jwt_identity()) for
\* lesson 1 (xp_reward 20) or lesson 3 (xp_reward 0) of module 1, with an
\* empty body.
StartUsers(p) ==
    /\ pc[p] = "idle"
    /\ p \in Slots
    /\ \A q \in Procs : q < p => pc[q] # "idle"
    /\ \E u \in RequestUserIds, l \in {1, 3} :
          Receive(p, u, 1, l, NoData, NoHist)

NextUsers ==
    \E p \in Slots :
        \/ StartUsers(p)
        \/ Flush(p)
        \/ Work(p)
        \/ Commit(p)
        \/ Refetch(p)
        \/ Hooks(p)

SpecUsers == InitUsers /\ [][NextUsers]_vars

\* ------------------------------------------------------------------------
\* Vocabulary of the properties.

Started(p) == pc[p] # "idle"
Quiescent == \A p \in Procs : pc[p] \in {"idle", "done"}

\* p's request was in flight when q's was received (requests are numbered in
\* the order they are received).
Overlap(p, q) == p \in hist[q].active_at_start \/ q \in hist[p].active_at_start

\* The lesson_completion transactions of a pair.
TxFor(u, l) ==
    {t \in xp_transactions :
        t.user_id = u /\ t.lesson_id = l /\ t.source = "lesson_completion"}

RECURSIVE SumAmounts(_)
SumAmounts(S) ==
    IF S = {} THEN 0
    ELSE LET t == CHOOSE x \in S : TRUE IN t.amount + SumAmounts(S \ {t})

\* The XP resolution policy as specified: xp_earned if positive, else the
\* lesson's xp_reward if positive, else the default.
PolicyXP(xp_earned, xp_reward) ==
    IF xp_earned # None /\ Val(xp_earned) > 0 THEN Val(xp_earned)
    ELSE IF xp_reward # None /\ Val(xp_reward) > 0 THEN Val(xp_reward)
    ELSE DefaultXP

\* The amounts the policy can resolve for a lesson, over the request bodies.
PolicyAmounts(l) == {PolicyXP(d.xp_earned, Lesson(l).xp_reward) : d \in DataChoices}

\* Every request received so far is a valid request for the pair (u, l).
OnlyRequestsFor(u, l) ==
    /\ \E p \in Procs : Started(p)
    /\ \A p \in Procs :
         Started(p) => /\ hist[p].user_id = u
                       /\ hist[p].lesson_id = l
                       /\ hist[p].module_id = Lesson(l).module_id

\* ------------------------------------------------------------------------
\* C1: for a never-completed pair, any number of concurrent CompleteLesson
\* requests leave exactly one lesson_completion XPTransaction for the pair
\* and total_xp raised by exactly one resolved amount.
C1_ExactlyOneCredit ==
    \A u \in UserIds, l \in LessonIds :
        (Quiescent /\ OnlyRequestsFor(u, l)) =>
            /\ Cardinality(TxFor(u, l)) = 1
            /\ total_xp[u] \in PolicyAmounts(l)
            /\ total_xp[u] = SumAmounts(TxFor(u, l))

\* C2: of two concurrent requests for the same never-completed pair, both
\* answer, exactly one answers already_completed=false with a nonzero
\* xp_earned and the other already_completed=true with xp_earned=0.
C2_OneWinnerOneDuplicate ==
    \A p, q \in Procs :
        ( /\ p < q
          /\ pc[p] = "done" /\ pc[q] = "done"
          /\ \A r \in Procs \ {p, q} : pc[r] = "idle"
          /\ Overlap(p, q)
          /\ hist[p].lesson_id \in LessonIds
          /\ hist[p].lesson_id = hist[q].lesson_id
          /\ hist[p].user_id = hist[q].user_id
          /\ hist[p].module_id = hist[q].module_id
          /\ ~hist[p].start_done /\ ~hist[q].start_done )
        => \E w, d \in {p, q} :
              /\ w # d
              /\ resp[w].status = 200 /\ ~resp[w].already_completed
              /\ resp[w].xp_earned # 0
              /\ resp[d] = Success(TRUE, 0)

\* C3: a CompleteLesson call received after the pair's completion was
\* committed answers already_completed=true, xp_earned=0 and changes no
\* LessonProgress, ModuleProgress, XPTransaction row and no total_xp.
C3_LaterCallsAreNoOps ==
    [][\A p \in Procs :
          ( /\ pc[p] = "idle" /\ pc'[p] # "idle"
            /\ \E r \in lesson_progress :
                  /\ r.is_completed
                  /\ r.user_id = hist'[p].user_id
                  /\ r.lesson_id = hist'[p].lesson_id )
          => /\ pc'[p] = "done"
             /\ resp'[p] = Success(TRUE, 0)
             /\ ~hist'[p].committed
             /\ db' = db]_vars

C3_Witness ==
    \E p \in Procs :
        /\ hist[p].start_done
        /\ pc[p] = "done"
        /\ resp[p] = Success(TRUE, 0)

\* C4: every ModuleProgress row has completed_lessons <= total_lessons and
\* is_completed exactly when the two are equal.
C4_ModuleAggregateBound ==
    \A r \in module_progress :
        /\ r.completed_lessons <= r.total_lessons
        /\ r.is_completed <=> (r.completed_lessons = r.total_lessons)

\* C5: the amount a first completion credits (and returns) is the request's
\* xp_earned if positive, else the lesson's xp_reward if positive, else 50.
C5_ResolutionOrder ==
    \A p \in Procs :
        pc[p] = "hooks" =>
            /\ loc[p].credited_xp =
                  PolicyXP(req[p].data.xp_earned, Lesson(req[p].lesson_id).xp_reward)
            /\ total_xp[req[p].user_id] >= loc[p].credited_xp
            /\ \E t \in TxFor(req[p].user_id, req[p].lesson_id) :
                  t.amount = loc[p].credited_xp

C5_Witness ==
    \E p \in Procs :
        /\ pc[p] = "hooks"
        /\ req[p].data.xp_earned = None
        /\ Lesson(req[p].lesson_id).xp_reward = Some(20)
        /\ loc[p].credited_xp = 20

\* C6: a request whose lesson does not exist, or is not a lesson of the
\* module in the path, is answered 404 as it is received and changes no
\* LessonProgress, ModuleProgress, XPTransaction row and no total_xp; only
\* requests for a lesson of the path's module get past the lookup.
C6_NotFoundLeavesNoTrace ==
    [][\A p \in Procs :
          (pc[p] = "idle" /\ pc'[p] # "idle") =>
             \/ /\ pc'[p] = "done"
                /\ resp'[p] = Error(404)
                /\ ~hist'[p].committed
                /\ db' = db
             \/ /\ resp'[p].status # 404
                /\ hist'[p].lesson_id \in LessonsOf(hist'[p].module_id)]_vars

C6_Witness ==
    \E p \in Procs :
        /\ pc[p] = "done"
        /\ resp[p] = Error(404)
        /\ ~hist[p].committed
        /\ lesson_progress # {}
        /\ xp_transactions # {}

\* No committed state holds part of a completion: a completed lesson row has
\* its module row counting it, a module row counts only where a completed
\* lesson row is, every XP transaction has its completed lesson row carrying
\* the amount, and total_xp is the sum of the transactions.
NoPartialCompletion ==
    /\ \A r \in lesson_progress :
          r.is_completed =>
             \E mp \in ModuleRows(module_progress, r.user_id, Lesson(r.lesson_id).module_id) :
                mp.completed_lessons >= 1
    /\ \A mp \in module_progress :
          mp.completed_lessons >= 1 =>
             CompletedLessonCount(lesson_progress, mp.user_id, mp.module_id) >= 1
    /\ \A t \in xp_transactions :
          \E r \in LessonRows(lesson_progress, t.user_id, t.lesson_id) :
             r.is_completed /\ r.xp_earned = t.amount
    /\ \A u \in UserIds :
          total_xp[u] = SumAmounts({t \in xp_transactions : t.user_id = u})

C8_NoLostCounterUpdate ==
    \A p, q \in Procs :
        ( /\ p < q
          /\ Overlap(p, q)
          /\ pc[p] = "done" /\ pc[q] = "done"
          /\ hist[p].committed /\ hist[q].committed
          /\ hist[p].user_id = hist[q].user_id
          /\ hist[p].module_id = hist[q].module_id
          /\ hist[p].lesson_id # hist[q].lesson_id
          /\ \A r \in Procs \ {p, q} :
                \/ pc[r] = "idle"
                \/ r < p /\ pc[r] = "done" /\ r \notin hist[p].active_at_start )
        => \E mp \in ModuleRows(module_progress, hist[p].user_id, hist[p].module_id) :
              mp.completed_lessons = hist[p].start_c + 2

\* C9: a committed completed LessonProgress row is never changed again (its
\* is_completed, completed_at, score, time_spent and xp_earned stay), its
\* pair gets no further XP transaction, and no request commits a completion
\* of a pair that is already completed.
C9_CompletedIsTerminal ==
    [][/\ \A r \in lesson_progress :
             r.is_completed =>
                /\ r \in lesson_progress'
                /\ LessonRows(lesson_progress', r.user_id, r.lesson_id) = {r}
                /\ TxFor(r.user_id, r.lesson_id)' = TxFor(r.user_id, r.lesson_id)
       /\ \A p \in Procs :
             (~hist[p].committed /\ hist'[p].committed) =>
                /\ \A r \in LessonRows(lesson_progress, req[p].user_id, req[p].lesson_id) :
                      ~r.is_completed
                /\ \A q \in Procs \ {p} :
                      hist[q].committed =>
                         \/ hist[q].user_id # req[p].user_id
                         \/ hist[q].lesson_id # req[p].lesson_id]_vars

C9_Witness ==
    \E p, q \in Procs :
        /\ p # q
        /\ hist[p].committed
        /\ p \in hist[q].active_at_start
        /\ ~hist[q].start_done
        /\ hist[q].user_id = hist[p].user_id
        /\ hist[q].lesson_id = hist[p].lesson_id
        /\ pc[q] = "done"
        /\ resp[q] = Success(TRUE, 0)
        /\ \E r \in LessonRows(lesson_progress, hist[p].user_id, hist[p].lesson_id) :
              r.is_completed

\* The request of p ran alone: no request was in flight when it was
\* received and none was received while it ran.
Sequential(p) ==
    /\ hist[p].active_at_start = {}
    /\ \A q \in Procs : p \notin hist[q].active_at_start

\* C10: a first, sequential completion in a module with total_lessons = T
\* of which k < T lessons were completed answers already_completed=false
\* with the resolved amount, sets completed_lessons to k+1 and is_completed
\* exactly when k+1 = T.
C10_FirstCompletionResult ==
    \A p \in Procs :
        ( /\ pc[p] = "hooks"
          /\ Sequential(p)
          /\ hist[p].start_k < Module(req[p].module_id).total_lessons )
        => /\ ResponseOf(loc[p].credited_xp, loc[p].already_completed) =
                Success(FALSE, PolicyXP(req[p].data.xp_earned,
                                        Lesson(req[p].lesson_id).xp_reward))
           /\ \E mp \in ModuleRows(module_progress, req[p].user_id, req[p].module_id) :
                 /\ mp.completed_lessons = hist[p].start_k + 1
                 /\ mp.is_completed <=>
                       (hist[p].start_k + 1 = Module(req[p].module_id).total_lessons)

\* The XP transactions of a user.
TxOf(u) == {t \in xp_transactions : t.user_id = u}

\* C11: for every user total_xp (initially 0) is the sum of the amounts of
\* the user's lesson_completion transactions, and every step that changes
\* total_xp adds exactly one transaction of that amount in the same commit;
\* transactions are never removed.
C11_XpMatchesTransactions ==
    [][/\ xp_transactions \subseteq xp_transactions'
       /\ Cardinality(xp_transactions' \ xp_transactions) <= 1
       /\ \A u \in UserIds :
             /\ total_xp'[u] - total_xp[u] =
                   SumAmounts({t \in xp_transactions' \ xp_transactions : t.user_id = u})
             /\ total_xp'[u] = SumAmounts(TxOf(u)')
             /\ \A t \in TxOf(u)' : t.source = "lesson_completion"]_vars

C11_Witness ==
    \E p, q \in Procs :
        /\ p < q
        /\ Overlap(p, q)
        /\ hist[p].committed /\ hist[q].committed
        /\ hist[p].user_id = hist[q].user_id
        /\ hist[p].lesson_id # hist[q].lesson_id
        /\ TxFor(hist[p].user_id, hist[p].lesson_id) # {}
        /\ TxFor(hist[q].user_id, hist[q].lesson_id) # {}
        /\ total_xp[hist[p].user_id] = SumAmounts(TxOf(hist[p].user_id))

\* C12: a pair has a completed LessonProgress row exactly when it has
\* exactly one lesson_completion XPTransaction, whatever xp_earned and the
\* lesson's xp_reward are.
C12_OneTransactionPerCompletion ==
    \A u \in UserIds, l \in LessonIds :
        (\E r \in LessonRows(lesson_progress, u, l) : r.is_completed)
            <=> Cardinality(TxFor(u, l)) = 1

\* C13: at most one LessonProgress row per (user, lesson) and at most one
\* ModuleProgress row per (user, module).
C13_OneRowPerKey ==
    /\ \A u \in UserIds, l \in LessonIds :
          Cardinality(LessonRows(lesson_progress, u, l)) <= 1
    /\ \A u \in UserIds, m \in ModuleIds :
          Cardinality(ModuleRows(module_progress, u, m)) <= 1

C13_Witness ==
    \E p, q \in Procs :
        /\ p # q
        /\ Overlap(p, q)
        /\ hist[p].committed
        /\ pc[q] = "done" /\ resp[q] = Error(500)
        /\ hist[q].user_id = hist[p].user_id
        /\ hist[q].module_id = hist[p].module_id
        /\ hist[q].lesson_id # hist[p].lesson_id
        /\ Cardinality(ModuleRows(module_progress, hist[p].user_id, hist[p].module_id)) = 1

C15_HookFailureIsAdvisory ==
    [][\A p \in Procs :
          pc[p] = "hooks" =>
             /\ hist[p].committed /\ hist'[p].committed
             /\ (pc'[p] # pc[p] \/ loc'[p] # loc[p]) => db' = db
             /\ pc'[p] \in {"hooks", "done"}
             /\ pc'[p] = "hooks" => loc'[p].credited_xp = loc[p].credited_xp
             /\ pc'[p] = "done" => resp'[p] = Success(FALSE, loc[p].credited_xp)]_vars

C15_Witness ==
    \E p \in Procs :
        /\ pc[p] = "done"
        /\ hist[p].hook_failures = max_retries
        /\ hist[p].committed
        /\ resp[p].status = 200 /\ ~resp[p].already_completed
        /\ resp[p].xp_earned > 0
        /\ total_xp[hist[p].user_id] >= resp[p].xp_earned
        /\ \E r \in LessonRows(lesson_progress, hist[p].user_id, hist[p].lesson_id) :
              r.is_completed

C18_RowLockingCredits ==
    \A p, q \in Procs :
        ( /\ p # q
          /\ pc[p] = "done" /\ pc[q] = "done"
          /\ \A r \in Procs \ {p, q} : pc[r] = "idle"
          /\ hist[p].endpoint = "lessons" /\ hist[q].endpoint = "lessons"
          /\ hist[p].user_id = hist[q].user_id
          /\ ~hist[p].start_done /\ ~hist[q].start_done )
        => LET u == hist[p].user_id
               lp == hist[p].lesson_id
               lq == hist[q].lesson_id
           IN  /\ Cardinality(TxFor(u, lp)) <= 1
               /\ Cardinality(TxFor(u, lq)) <= 1
               /\ lp # lq =>
                    /\ Cardinality(TxFor(u, lp)) = 1
                    /\ Cardinality(TxFor(u, lq)) = 1
                    /\ total_xp[u] = SumAmounts(TxFor(u, lp) \cup TxFor(u, lq))
                    /\ total_xp[u] > 0

CounterOff(u, m) ==
    \E r \in ModuleRows(module_progress, u, m) :
        r.completed_lessons # CompletedLessonCount(lesson_progress, u, m)

C20_ModuleCompletionIsStable ==
    [][ \A r \in module_progress :
           \E r2 \in module_progress' :
               /\ r2.user_id = r.user_id /\ r2.module_id = r.module_id
               /\ r2.completed_lessons >= r2.total_lessons =>
                    (r2.is_completed /\ r2.completed_at # None)
               /\ r.completed_at # None => r2.completed_at = r.completed_at
               /\ r.is_completed => r2.is_completed ]_vars

\* ------------------------------------------------------------------------
\* C21: an integrity violation raised at commit on another key than
\* (user_id, lesson_id) - in the model every commit-time violation is the
\* one on unique_user_module - surfaces as an error: the request that went
\* through the rollback and the re-fetch is answered 500, never 200.
C21_OtherViolationIsReraised ==
    [][ \A p \in Procs :
           (pc[p] = "refetch" /\ pc'[p] = "done") => resp'[p].status = 500 ]_vars

\* ------------------------------------------------------------------------
\* C22: the post-completion hooks run only in a request whose completion
\* has committed and is a new one, and the pair is attempted at most
\* max_retries times: a failed attempt before the last is followed by the
\* next attempt, the loop ends at the first success or with the failure of
\* the last attempt, and a request that answers without a commit (already
\* completed, not found, rolled back) has attempted no hook.
C22_HooksAfterCommitBounded ==
    [][ \A p \in Procs :
          /\ pc'[p] = "hooks" =>
                /\ hist'[p].committed
                /\ ~loc'[p].already_completed
                /\ loc'[p].attempt < max_retries
                /\ loc'[p].attempt = hist'[p].hook_failures
          /\ hist'[p].hook_failures <= max_retries
          /\ hist'[p].hook_failures > 0 => hist'[p].committed
          /\ (pc[p] = "hooks" /\ pc'[p] = "hooks") =>
                hist'[p].hook_failures <= hist[p].hook_failures + 1
          /\ (pc[p] = "hooks" /\ pc'[p] = "done") =>
                \/ hist'[p].hook_failures = hist[p].hook_failures
                \/ hist'[p].hook_failures = max_retries
          /\ (pc[p] \notin {"hooks", "done"} /\ pc'[p] = "done") =>
                /\ ~hist'[p].committed
                /\ hist'[p].hook_failures = 0
          /\ (pc'[p] = "done" /\ (resp'[p].status # 200 \/ resp'[p].already_completed)) =>
                /\ ~hist'[p].committed
                /\ hist'[p].hook_failures = 0 ]_vars

\* A new completion whose hooks succeeded at the last attempt allowed, and
\* a repeated call answered without any attempt.
C22_Witness ==
    \E p, q \in Procs :
        /\ pc[p] = "done" /\ resp[p].status = 200 /\ ~resp[p].already_completed
        /\ hist[p].committed
        /\ hist[p].hook_failures = max_retries - 1
        /\ pc[q] = "done" /\ resp[q].already_completed
        /\ hist[q].hook_failures = 0 /\ ~hist[q].committed

\* ------------------------------------------------------------------------
\* C23: XPTransaction rows are append-only: every row of a committed state
\* is in every later state with the same id, user_id, source, amount and
\* metadata, whatever calls follow (successful, repeated or failing), and a
\* step adds at most one row.
C23_LedgerAppendOnly ==
    [][ /\ xp_transactions \subseteq xp_transactions'
        /\ Cardinality(xp_transactions' \ xp_transactions) <= 1
        /\ \A t \in xp_transactions' \ xp_transactions :
              \A t0 \in xp_transactions : t0.id # t.id ]_vars

\* Two rows in the ledger, the first of them followed by a repeated call
\* and by a failing one.
C23_Witness ==
    \E p, q, r \in Procs :
        /\ hist[p].committed /\ TxFor(hist[p].user_id, hist[p].lesson_id) # {}
        /\ pc[q] = "done" /\ resp[q].already_completed /\ hist[q].start_done
        /\ hist[q].lesson_id = hist[p].lesson_id
        /\ pc[r] = "done" /\ resp[r].status = 500 /\ r > p
        /\ p \notin hist[r].active_at_start

\* ------------------------------------------------------------------------
\* C24: a request answered 200 with already_completed = false has committed
\* the completion itself: its commit succeeded, the pair's committed row is
\* completed, and the xp_earned of its response is the amount its commit
\* added to the user's total_xp.  No request that rolled back is answered
\* as a new completion.
C24_SuccessMeansCommitted ==
    [][ \A p \in Procs :
          /\ (pc[p] # "done" /\ pc'[p] = "done"
                /\ resp'[p].status = 200 /\ ~resp'[p].already_completed) =>
                /\ hist'[p].committed
                /\ \E r \in LessonRows(lesson_progress', hist'[p].user_id, hist'[p].lesson_id) :
                      r.is_completed
                /\ resp'[p].xp_earned = loc[p].credited_xp
          /\ (pc[p] = "commit" /\ pc'[p] = "hooks") =>
                total_xp'[req[p].user_id] - total_xp[req[p].user_id] = loc'[p].credited_xp
          /\ (pc[p] = "hooks" /\ pc'[p] = "hooks") =>
                loc'[p].credited_xp = loc[p].credited_xp ]_vars

\* ------------------------------------------------------------------------
\* C25: in every committed state reached from empty tables, each
\* ModuleProgress row's completed_lessons is the number of the user's
\* completed LessonProgress rows of lessons of that module, and a user with
\* a completed lesson of a module has the module's row.
C25_CounterAgreesWithScan ==
    /\ \A r \in module_progress :
          r.completed_lessons = CompletedLessonCount(lesson_progress, r.user_id, r.module_id)
    /\ \A u \in UserIds, m \in ModuleIds :
          CompletedLessonCount(lesson_progress, u, m) > 0 =>
             ModuleRows(module_progress, u, m) # {}

\* ------------------------------------------------------------------------
\* C26: run sequentially, lessons.py complete_lesson gives what
\* _complete_lesson_internal gives for the same pair in the same state: a
\* repeated call is answered already_completed = true with xp_earned 0, a
\* first one already_completed = false with the resolved amount, after
\* which the pair's row is completed and the amount is in the ledger.
C26_ImplementationsAgree ==
    \A p \in Procs :
        ( /\ pc[p] = "done"
          /\ hist[p].endpoint = "lessons"
          /\ Sequential(p) )
        => LET u == hist[p].user_id
               l == hist[p].lesson_id
               amount == ResolveXP(NoData.xp_earned, Lesson(l).xp_reward)
           IN  /\ resp[p] = ResponseOf(amount, hist[p].start_done)
               /\ \E r \in LessonRows(lesson_progress, u, l) : r.is_completed
               /\ amount > 0 => TxFor(u, l) # {}

\* ------------------------------------------------------------------------
\* The rows of a table that are not those of user u with the given key.
OtherLessonRows(table, u, l) == table \ LessonRows(table, u, l)
OtherModuleRows(table, u, m) == table \ ModuleRows(table, u, m)

\* A step changes committed rows only as the commit of one request, and
\* then only that request's pair and aggregate: the progress rows of other
\* users or lessons, the module rows of other users or modules and the XP
\* of other users stay, and the rows added to the ledger are the pair's.
FrameOfCommit ==
    /\ db' # db => \E p \in Procs : pc[p] = "commit" /\ hist'[p].committed
    /\ \A p \in Procs :
          (pc[p] = "commit" /\ hist'[p].committed) =>
             LET u == req[p].user_id
                 m == req[p].module_id
                 l == req[p].lesson_id
             IN  /\ OtherLessonRows(lesson_progress', u, l) = OtherLessonRows(lesson_progress, u, l)
                 /\ OtherModuleRows(module_progress', u, m) = OtherModuleRows(module_progress, u, m)
                 /\ xp_transactions \subseteq xp_transactions'
                 /\ \A t \in xp_transactions' \ xp_transactions :
                       t.user_id = u /\ t.lesson_id = l /\ t.module_id = m
                 /\ \A v \in DOMAIN total_xp : v # u => total_xp'[v] = total_xp[v]

\* Two overlapping requests of two different users for the same lesson,
\* both answered, and no other request: each user has exactly one
\* transaction for the lesson and its amount as total_xp.
EachUserCreditedOnce ==
    \A p, q \in Procs :
        ( /\ p < q
          /\ pc[p] = "done" /\ pc[q] = "done"
          /\ \A r \in Procs \ {p, q} : pc[r] = "idle"
          /\ Overlap(p, q)
          /\ hist[p].user_id # hist[q].user_id
          /\ hist[p].lesson_id = hist[q].lesson_id )
        => \A v \in {hist[p].user_id, hist[q].user_id} :
              /\ Cardinality(TxFor(v, hist[p].lesson_id)) = 1
              /\ total_xp[v] = SumAmounts(TxFor(v, hist[p].lesson_id))

\* C27: a CompleteLesson call changes nothing outside its own pair and
\* aggregate, and concurrent completions of one lesson by two different
\* users credit each user exactly once.
C27_FrameAndOwnCredit ==
    [][ FrameOfCommit /\ EachUserCreditedOnce' ]_vars

\* ------------------------------------------------------------------------
\* C28: in every committed state the xp_earned stored on a completed
\* LessonProgress row is the amount credited for its pair: the amount of
\* the pair's XPTransaction, or 0 when the pair has none.
C28_StoredXpIsCreditedXp ==
    \A r \in lesson_progress :
        r.is_completed => r.xp_earned = SumAmounts(TxFor(r.user_id, r.lesson_id))
====
